---- MODULE Spec2Model ----
(***************************************************************************)
(* State-machine model of cat/augustus_cgp.py: the AugustusCGP toil        *)
(* pipeline.  setup plans overlapping alignment chunks per chromosome and  *)
(* issues one hal2maf -> cgp chain per chunk plus the merge_results        *)
(* follow-on; merge_results regroups the chunk results by genome and       *)
(* issues one join_genes child per genome; augustus_cgp exports the log    *)
(* and the per-genome files once the job graph has finished.               *)
(***************************************************************************)
EXTENDS Integers, Sequences, FiniteSets, TLC

\* ---------------------------------------------------------------- bounds
\* largest chromosome size / chunk size of the chunk-planning specification
MaxPlanLen == 8
MaxPlanChunk == 4
\* largest chromosome size / chunk size / number of chunks of the pipeline
MaxChromSize == 2
MaxChunk == 2
MaxWindows == 3
\* largest number of chunks and of restarts of the interrupted-run specification
MaxRestartWindows == 2
MaxRestarts == 1

ChromIds == {"chrA", "chrB"}
Genomes == {"g1", "g2"}

VARIABLES
    chrom_sizes,          \* the chromosome-size table: sequence of <<chrom, size>>
    args,                 \* [chunksize, overlap, genomes]
    runState,             \* augustus_cgp: "running" | "interrupted" | "failed" | "exported"
    setupState,           \* the setup job: "issued" | "done" | "failed"
    results,              \* setup's results list: [chrom, start, chunksize], promise = index
    halState,             \* per chunk, the hal2maf job: "issued" | "done" | "failed"
    cgpState,             \* per chunk, the cgp job: "issued" | "done" | "failed"
    maf,                  \* resolved hal2maf return values (index -> file id)
    cgpInput,             \* the mafChunk each started cgp job read
    cgpRv,                \* resolved cgp return values (index -> [gff, stdout])
    outOfOrder,           \* some cgp job resolved before one of an earlier chunk
    mergeState,           \* the merge_results job: "none" | "issued" | "done"
    mergeInput,           \* the results list as merge_results received it
    gff_chunks_by_genome, \* merge_results: genome -> (key -> gff file id)
    stdout_file_ids,      \* merge_results: key -> stdout file id
    joinState,            \* per spawned join_genes job: "issued" | "done" | "failed"
    raw_gtf,              \* per finished join_genes job: the blocks of raw_gtf_file
    joinRv,               \* resolved join_genes return values
    stdout_file,          \* the blocks written to args.stdout_file
    exported,             \* genome -> the three exported file ids
    imports,              \* how many times augustus_cgp imported the input files
    setupJobs,            \* how many setup jobs augustus_cgp created
    restarts,             \* how many times the run was resumed with restart set
    resolvedBefore,       \* the jobs that had succeeded when the run was last interrupted
    reexecuted            \* the jobs of resolvedBefore that were executed again

vars == <<chrom_sizes, args, runState, setupState, results, halState, cgpState, maf,
          cgpInput, cgpRv, outOfOrder, mergeState, mergeInput, gff_chunks_by_genome,
          stdout_file_ids, joinState, raw_gtf, joinRv, stdout_file, exported,
          imports, setupJobs, restarts, resolvedBefore, reexecuted>>

restartVars == <<imports, setupJobs, restarts, resolvedBefore>>

\* ------------------------------------------------------- dicts and file ids
EmptyDict == [x \in {} |-> x]

DictSet(d, k, v) == [x \in (DOMAIN d) \cup {k} |-> IF x = k THEN v ELSE d[x]]

\* every order in which a Python 2 dict may hand out its entries
IterItems(d) ==
    LET n == Cardinality(DOMAIN d)
    IN  {s \in [1..n -> DOMAIN d] : \A i, j \in 1..n : i # j => s[i] # s[j]}

FileId(kind, window, genome) == [kind |-> kind, window |-> window, genome |-> genome]

Unresolved(i) == FileId("unresolved", i, "-")

JobId(fn, chunk, genome) == [fn |-> fn, chunk |-> chunk, genome |-> genome]

\* ------------------------------------------------------------ chunk planning
\* xrange stopping one step late: a start equal to the stop is still produced
RECURSIVE XRangeInclusive(_, _, _)
XRangeInclusive(start, stop, step) ==
    IF (step > 0 /\ start > stop) \/ (step < 0 /\ start < stop)
    THEN <<>>
    ELSE <<start>> \o XRangeInclusive(start + step, stop, step)

RECURSIVE XRange(_, _, _)
XRange(start, stop, step) ==
    IF (step > 0 /\ start >= stop) \/ (step < 0 /\ start <= stop)
    THEN <<>>
    ELSE <<start>> \o XRange(start + step, stop, step)

\* the step with the overlap added instead of subtracted
StepPlusOverlap(chunksize, overlap) == chunksize + overlap

\* the step with the overlap forgotten
StepNoOverlap(chunksize, overlap) == chunksize

Step(chunksize, overlap) == chunksize - overlap

\* the chunk size without the clipping at the chromosome end
ChunkSizeUnclipped(start, chrom_size, chunksize) == chunksize

ChunkSize(start, chrom_size, chunksize) ==
    IF start + chunksize <= chrom_size THEN chunksize ELSE chrom_size - start

ChromWindows(chrom, chrom_size, chunksize, overlap) ==
    LET starts == XRange(0, chrom_size, Step(chunksize, overlap))
    IN  [i \in 1..Len(starts) |->
            [chrom |-> chrom, start |-> starts[i],
             chunksize |-> ChunkSize(starts[i], chrom_size, chunksize)]]

RECURSIVE PlanWindows(_, _, _)
PlanWindows(table, chunksize, overlap) ==
    IF table = <<>> THEN <<>>
    ELSE ChromWindows(table[1][1], table[1][2], chunksize, overlap)
            \o PlanWindows(Tail(table), chunksize, overlap)

\* xrange() raises ValueError on a zero step, at the first row of the table
XRangeRaises(table, chunksize, overlap) ==
    table # <<>> /\ Step(chunksize, overlap) = 0

\* the dict key without the start offset
KeyWithoutStart(r) == <<r.chrom, 0, r.chunksize>>

Key(r) == <<r.chrom, r.start, r.chunksize>>

\* ------------------------------------------------------------------- jobs
\* cgp returning a gff only for some of the genomes
CgpRvPartial(i, genomes) ==
    [gff |-> [g \in genomes \ {"g2"} |-> FileId("gff", i, g)],
     stdout |-> FileId("stdout", i, "-")]

\* cgp's return value: one gff per genome of args.genomes, and the stdout file
CgpRv(i, genomes) ==
    [gff |-> [g \in genomes |-> FileId("gff", i, g)], stdout |-> FileId("stdout", i, "-")]

\* every promise resolving to the return value of the cgp job created last
ResolveLast(i) ==
    IF Len(results) \in DOMAIN cgpRv THEN cgpRv[Len(results)]
    ELSE [gff |-> EmptyDict, stdout |-> Unresolved(i)]

\* the value a promise of setup's results list hands to merge_results
Resolve(i) ==
    IF i \in DOMAIN cgpRv THEN cgpRv[i] ELSE [gff |-> EmptyDict, stdout |-> Unresolved(i)]

\* merge_results, the stdout_file_ids dict after the loop over results
RECURSIVE StdoutFileIds(_)
StdoutFileIds(res) ==
    IF res = <<>> THEN EmptyDict
    ELSE LET n == Len(res)
             r == res[n]
         IN  DictSet(StdoutFileIds(SubSeq(res, 1, n - 1)), Key(r), r.rv.stdout)

\* merge_results, the gff_chunks_by_genome defaultdict after the loop over results
RECURSIVE GffChunksByGenome(_)
GffChunksByGenome(res) ==
    IF res = <<>> THEN EmptyDict
    ELSE LET n == Len(res)
             r == res[n]
             prev == GffChunksByGenome(SubSeq(res, 1, n - 1))
         IN  [g \in (DOMAIN prev) \cup (DOMAIN r.rv.gff) |->
                IF g \in DOMAIN r.rv.gff
                THEN DictSet(IF g \in DOMAIN prev THEN prev[g] ELSE EmptyDict,
                             Key(r), r.rv.gff[g])
                ELSE prev[g]]

\* the genomes merge_results spawns a join_genes child for
JoinGenomes(by_genome) == DOMAIN by_genome

JoinRv(g) ==
    <<FileId("raw_gtf", 0, g), FileId("joined_gtf", 0, g), FileId("joined_gp", 0, g)>>

Chunks == 1..Len(results)

\* one job per chromosome instead of one per chunk: the call hoisted out of the
\* inner loop
IssueJobsPerChrom(res) ==
    [i \in 1..Cardinality({res[k].chrom : k \in 1..Len(res)}) |-> "issued"]

\* setup's chunk loop adds one hal2maf child and one cgp follow-on per entry of results
IssueJobs(res) == [i \in 1..Len(res) |-> "issued"]

\* toil's ordering: children start after their parent returned, a follow-on after
\* its predecessor and all of the predecessor's successors finished
Hal2mafReady(i) == setupState = "done" /\ halState[i] = "issued"

\* cgp issued as a child of setup instead of as the follow-on of its hal2maf job
CgpReadyAsChild(i) == setupState = "done" /\ cgpState[i] = "issued"

CgpReady(i) == halState[i] = "done" /\ cgpState[i] = "issued"

\* merge_results issued as a child of setup instead of as its follow-on
MergeReadyAsChild == setupState = "done" /\ mergeState = "issued"

\* merge_results started once every chain has ended, failed chains included
MergeReadyAnyOutcome ==
    /\ setupState = "done"
    /\ mergeState = "issued"
    /\ \A i \in Chunks : halState[i] = "failed" \/ cgpState[i] # "issued"

\* merge_results started by the last chunk chain to finish: never without chunks
MergeReadyNeedsChunk ==
    /\ setupState = "done"
    /\ mergeState = "issued"
    /\ Chunks # {}
    /\ \A i \in Chunks : halState[i] = "done" /\ cgpState[i] = "done"

MergeReady ==
    /\ setupState = "done"
    /\ mergeState = "issued"
    /\ \A i \in Chunks : halState[i] = "done" /\ cgpState[i] = "done"

\* a join_genes job held back once the join_genes job of another genome has failed
JoinReadyNoneFailed(g) ==
    /\ mergeState = "done"
    /\ g \in DOMAIN joinState
    /\ joinState[g] = "issued"
    /\ \A h \in DOMAIN joinState : joinState[h] # "failed"

JoinReady(g) == mergeState = "done" /\ g \in DOMAIN joinState /\ joinState[g] = "issued"

\* t.start returning once merge_results has returned, its children still to run
GraphDoneWithoutJoins == setupState = "done" /\ mergeState = "done"

GraphDone ==
    /\ setupState = "done"
    /\ mergeState = "done"
    /\ \A g \in DOMAIN joinState : joinState[g] = "done"

SomeJobFailed ==
    \/ setupState = "failed"
    \/ \E i \in Chunks : halState[i] = "failed" \/ cgpState[i] = "failed"
    \/ \E g \in DOMAIN joinState : joinState[g] = "failed"

SomeJobReady ==
    \/ setupState = "issued"
    \/ \E i \in Chunks : Hal2mafReady(i) \/ CgpReady(i)
    \/ MergeReady
    \/ \E g \in DOMAIN joinState : JoinReady(g)

\* the jobs the job store records as finished successfully
ResolvedJobs ==
    (IF setupState = "done" THEN {JobId("setup", 0, "-")} ELSE {})
        \cup {JobId("hal2maf", i, "-") : i \in {k \in Chunks : halState[k] = "done"}}
        \cup {JobId("cgp", i, "-") : i \in {k \in Chunks : cgpState[k] = "done"}}
        \cup (IF mergeState = "done" THEN {JobId("merge_results", 0, "-")} ELSE {})
        \cup {JobId("join_genes", 0, g) :
                    g \in {h \in DOMAIN joinState : joinState[h] = "done"}}

\* the value of reexecuted once job has been executed
Reexecuted(job) == reexecuted \cup ({job} \cap resolvedBefore)

\* ---------------------------------------------------------------- actions
\* setup returns: the chunk chains and the merge_results follow-on are issued
Setup ==
    /\ runState = "running"
    /\ setupState = "issued"
    /\ ~XRangeRaises(chrom_sizes, args.chunksize, args.overlap)
    /\ results' = PlanWindows(chrom_sizes, args.chunksize, args.overlap)
    /\ halState' = IssueJobs(results')
    /\ cgpState' = IssueJobs(results')
    /\ mergeState' = "issued"
    /\ setupState' = "done"
    /\ reexecuted' = Reexecuted(JobId("setup", 0, "-"))
    /\ UNCHANGED <<restartVars, chrom_sizes, args, runState, maf, cgpInput, cgpRv, outOfOrder,
                   mergeInput, gff_chunks_by_genome, stdout_file_ids, joinState,
                   raw_gtf, joinRv, stdout_file, exported>>

\* setup raises in its chunk loop: the job fails and issues nothing
SetupRaise ==
    /\ runState = "running"
    /\ setupState = "issued"
    /\ XRangeRaises(chrom_sizes, args.chunksize, args.overlap)
    /\ setupState' = "failed"
    /\ reexecuted' = Reexecuted(JobId("setup", 0, "-"))
    /\ UNCHANGED <<restartVars, chrom_sizes, args, runState, results, halState, cgpState, maf,
                   cgpInput, cgpRv, outOfOrder, mergeState, mergeInput,
                   gff_chunks_by_genome, stdout_file_ids, joinState, raw_gtf, joinRv,
                   stdout_file, exported>>

Hal2maf(i) ==
    /\ runState = "running"
    /\ Hal2mafReady(i)
    /\ halState' = [halState EXCEPT ![i] = "done"]
    /\ maf' = DictSet(maf, i, FileId("maf", i, "-"))
    /\ reexecuted' = Reexecuted(JobId("hal2maf", i, "-"))
    /\ UNCHANGED <<restartVars, chrom_sizes, args, runState, setupState, results, cgpState, cgpInput,
                   cgpRv, outOfOrder, mergeState, mergeInput, gff_chunks_by_genome,
                   stdout_file_ids, joinState, raw_gtf, joinRv, stdout_file, exported>>

\* run_proc raises in hal2maf
Hal2mafFail(i) ==
    /\ runState = "running"
    /\ Hal2mafReady(i)
    /\ halState' = [halState EXCEPT ![i] = "failed"]
    /\ reexecuted' = Reexecuted(JobId("hal2maf", i, "-"))
    /\ UNCHANGED <<restartVars, chrom_sizes, args, runState, setupState, results, cgpState, maf,
                   cgpInput, cgpRv, outOfOrder, mergeState, mergeInput,
                   gff_chunks_by_genome, stdout_file_ids, joinState, raw_gtf, joinRv,
                   stdout_file, exported>>

Cgp(i) ==
    /\ runState = "running"
    /\ CgpReady(i)
    /\ cgpInput' = DictSet(cgpInput, i, IF i \in DOMAIN maf THEN maf[i] ELSE Unresolved(i))
    /\ cgpState' = [cgpState EXCEPT ![i] = "done"]
    /\ cgpRv' = DictSet(cgpRv, i, CgpRv(i, args.genomes))
    /\ outOfOrder' = (outOfOrder \/ \E j \in 1..(i - 1) : cgpState[j] # "done")
    /\ reexecuted' = Reexecuted(JobId("cgp", i, "-"))
    /\ UNCHANGED <<restartVars, chrom_sizes, args, runState, setupState, results, halState, maf,
                   mergeState, mergeInput, gff_chunks_by_genome, stdout_file_ids,
                   joinState, raw_gtf, joinRv, stdout_file, exported>>

\* run_proc raises in cgp: nothing is returned
CgpFail(i) ==
    /\ runState = "running"
    /\ CgpReady(i)
    /\ cgpInput' = DictSet(cgpInput, i, IF i \in DOMAIN maf THEN maf[i] ELSE Unresolved(i))
    /\ cgpState' = [cgpState EXCEPT ![i] = "failed"]
    /\ reexecuted' = Reexecuted(JobId("cgp", i, "-"))
    /\ UNCHANGED <<restartVars, chrom_sizes, args, runState, setupState, results, halState, maf,
                   cgpRv, outOfOrder, mergeState, mergeInput, gff_chunks_by_genome,
                   stdout_file_ids, joinState, raw_gtf, joinRv, stdout_file, exported>>

MergeResults ==
    /\ runState = "running"
    /\ MergeReady
    /\ mergeInput' = [i \in Chunks |->
                        [chrom |-> results[i].chrom, start |-> results[i].start,
                         chunksize |-> results[i].chunksize, rv |-> Resolve(i)]]
    /\ stdout_file_ids' = StdoutFileIds(mergeInput')
    /\ gff_chunks_by_genome' = GffChunksByGenome(mergeInput')
    /\ joinState' = [g \in JoinGenomes(gff_chunks_by_genome') |-> "issued"]
    /\ mergeState' = "done"
    /\ reexecuted' = Reexecuted(JobId("merge_results", 0, "-"))
    /\ UNCHANGED <<restartVars, chrom_sizes, args, runState, setupState, results, halState, cgpState,
                   maf, cgpInput, cgpRv, outOfOrder, raw_gtf, joinRv, stdout_file,
                   exported>>

JoinGenes(g) ==
    /\ runState = "running"
    /\ JoinReady(g)
    /\ \E order \in IterItems(gff_chunks_by_genome[g]) :
          raw_gtf' = DictSet(raw_gtf, g,
                        [i \in DOMAIN order |->
                            [key |-> order[i], chunk |-> gff_chunks_by_genome[g][order[i]]]])
    /\ joinRv' = DictSet(joinRv, g, JoinRv(g))
    /\ joinState' = [joinState EXCEPT ![g] = "done"]
    /\ reexecuted' = Reexecuted(JobId("join_genes", 0, g))
    /\ UNCHANGED <<restartVars, chrom_sizes, args, runState, setupState, results, halState, cgpState,
                   maf, cgpInput, cgpRv, outOfOrder, mergeState, mergeInput,
                   gff_chunks_by_genome, stdout_file_ids, stdout_file, exported>>

\* run_proc raises in join_genes
JoinGenesFail(g) ==
    /\ runState = "running"
    /\ JoinReady(g)
    /\ joinState' = [joinState EXCEPT ![g] = "failed"]
    /\ reexecuted' = Reexecuted(JobId("join_genes", 0, g))
    /\ UNCHANGED <<restartVars, chrom_sizes, args, runState, setupState, results, halState, cgpState,
                   maf, cgpInput, cgpRv, outOfOrder, mergeState, mergeInput,
                   gff_chunks_by_genome, stdout_file_ids, raw_gtf, joinRv, stdout_file,
                   exported>>

\* t.start returned: augustus_cgp writes the log and exports the per-genome files
Export ==
    /\ runState = "running"
    /\ GraphDone
    /\ \E order \in IterItems(stdout_file_ids) :
          stdout_file' = [i \in DOMAIN order |->
                            [key |-> order[i], log |-> stdout_file_ids[order[i]]]]
    /\ exported' = [g \in DOMAIN joinRv |-> joinRv[g]]
    /\ runState' = "exported"
    /\ UNCHANGED reexecuted
    /\ UNCHANGED <<restartVars, chrom_sizes, args, setupState, results, halState, cgpState, maf,
                   cgpInput, cgpRv, outOfOrder, mergeState, mergeInput,
                   gff_chunks_by_genome, stdout_file_ids, joinState, raw_gtf, joinRv>>

\* t.start raises once a job has failed and nothing is left to run
ToilFailed ==
    /\ runState = "running"
    /\ SomeJobFailed
    /\ ~SomeJobReady
    /\ runState' = "failed"
    /\ UNCHANGED reexecuted
    /\ UNCHANGED <<restartVars, chrom_sizes, args, setupState, results, halState, cgpState, maf,
                   cgpInput, cgpRv, outOfOrder, mergeState, mergeInput,
                   gff_chunks_by_genome, stdout_file_ids, joinState, raw_gtf, joinRv,
                   stdout_file, exported>>

\* the run is killed between two jobs; the job store keeps what has finished
Interrupt ==
    /\ runState = "running"
    /\ restarts < MaxRestarts
    /\ runState' = "interrupted"
    /\ resolvedBefore' = ResolvedJobs
    /\ UNCHANGED <<chrom_sizes, args, setupState, results, halState, cgpState, maf,
                   cgpInput, cgpRv, outOfOrder, mergeState, mergeInput,
                   gff_chunks_by_genome, stdout_file_ids, joinState, raw_gtf, joinRv,
                   stdout_file, exported, imports, setupJobs, restarts, reexecuted>>

ResetFailed(state) == [k \in DOMAIN state |-> IF state[k] = "failed" THEN "issued" ELSE state[k]]

\* augustus_cgp run again without the restart branch: the inputs are imported
\* and a new setup job is started
RestartFromScratch ==
    /\ runState = "interrupted"
    /\ runState' = "running"
    /\ restarts' = restarts + 1
    /\ imports' = imports + 1
    /\ setupJobs' = setupJobs + 1
    /\ setupState' = "issued"
    /\ results' = <<>>
    /\ halState' = <<>>
    /\ cgpState' = <<>>
    /\ maf' = EmptyDict
    /\ cgpInput' = EmptyDict
    /\ cgpRv' = EmptyDict
    /\ mergeState' = "none"
    /\ mergeInput' = <<>>
    /\ gff_chunks_by_genome' = EmptyDict
    /\ stdout_file_ids' = EmptyDict
    /\ joinState' = EmptyDict
    /\ raw_gtf' = EmptyDict
    /\ joinRv' = EmptyDict
    /\ UNCHANGED <<chrom_sizes, args, outOfOrder, stdout_file, exported, resolvedBefore,
                   reexecuted>>

\* augustus_cgp run again with restart set: nothing is imported, no job is
\* created, t.restart() resumes the job store and retries its failed jobs
Restart ==
    /\ runState = "interrupted"
    /\ runState' = "running"
    /\ restarts' = restarts + 1
    /\ setupState' = (IF setupState = "failed" THEN "issued" ELSE setupState)
    /\ halState' = ResetFailed(halState)
    /\ cgpState' = ResetFailed(cgpState)
    /\ joinState' = ResetFailed(joinState)
    /\ UNCHANGED <<chrom_sizes, args, results, maf, cgpInput, cgpRv, outOfOrder,
                   mergeState, mergeInput, gff_chunks_by_genome, stdout_file_ids,
                   raw_gtf, joinRv, stdout_file, exported, imports, setupJobs,
                   resolvedBefore, reexecuted>>

\* --------------------------------------------------------- specifications
InitState(table, chunksize, overlap, genomes) ==
    /\ chrom_sizes = table
    /\ args = [chunksize |-> chunksize, overlap |-> overlap, genomes |-> genomes]
    /\ runState = "running"
    /\ setupState = "issued"
    /\ results = <<>>
    /\ halState = <<>>
    /\ cgpState = <<>>
    /\ maf = EmptyDict
    /\ cgpInput = EmptyDict
    /\ cgpRv = EmptyDict
    /\ outOfOrder = FALSE
    /\ mergeState = "none"
    /\ mergeInput = <<>>
    /\ gff_chunks_by_genome = EmptyDict
    /\ stdout_file_ids = EmptyDict
    /\ joinState = EmptyDict
    /\ raw_gtf = EmptyDict
    /\ joinRv = EmptyDict
    /\ stdout_file = <<>>
    /\ exported = EmptyDict
    /\ imports = 1
    /\ setupJobs = 1
    /\ restarts = 0
    /\ resolvedBefore = {}
    /\ reexecuted = {}

Tables(maxSize) ==
    UNION {[1..n -> ChromIds \X (0..maxSize)] : n \in 0..Cardinality(ChromIds)}

Init ==
    \E table \in Tables(MaxChromSize), chunksize \in 1..MaxChunk, overlap \in 0..MaxChunk,
       genomes \in SUBSET Genomes :
        /\ IF Step(chunksize, overlap) = 0 THEN TRUE
           ELSE Len(PlanWindows(table, chunksize, overlap)) <= MaxWindows
        /\ InitState(table, chunksize, overlap, genomes)

Next ==
    \/ Setup
    \/ SetupRaise
    \/ \E i \in Chunks : Hal2maf(i)
    \/ \E i \in Chunks : Hal2mafFail(i)
    \/ \E i \in Chunks : Cgp(i)
    \/ \E i \in Chunks : CgpFail(i)
    \/ MergeResults
    \/ \E g \in DOMAIN joinState : JoinGenes(g)
    \/ \E g \in DOMAIN joinState : JoinGenesFail(g)
    \/ Export
    \/ ToilFailed

Spec == Init /\ [][Next]_vars

\* the pipeline with interruptions and restarts, on one chromosome of few chunks
InitRestart ==
    \E chrom \in ChromIds, chrom_size \in 0..MaxChromSize, chunksize \in 1..MaxChunk,
       overlap \in 0..MaxChunk, genomes \in SUBSET Genomes :
        LET table == <<(<<chrom, chrom_size>>)>>
        IN  /\ IF Step(chunksize, overlap) = 0 THEN TRUE
               ELSE Len(PlanWindows(table, chunksize, overlap)) <= MaxRestartWindows
            /\ InitState(table, chunksize, overlap, genomes)

NextRestart ==
    \/ Next
    \/ Interrupt
    \/ Restart

SpecRestart == InitRestart /\ [][NextRestart]_vars

\* the pipeline under fair scheduling: toil runs every job that is ready, and
\* t.start returns or raises once no job is left to run
SpecLive == InitRestart /\ [][Next]_vars /\ WF_vars(Next)

\* chunk planning alone: one chromosome, every size, chunk size and overlap
InitPlan ==
    \E chrom \in ChromIds, chrom_size \in 0..MaxPlanLen, chunksize \in 1..MaxPlanChunk,
       overlap \in 0..MaxPlanChunk :
        InitState(<<(<<chrom, chrom_size>>)>>, chunksize, overlap, Genomes)

\* the same, and the chromosome of size 1000 planned with chunk size 300, overlap 50
InitPlanExample ==
    \/ InitPlan
    \/ InitState(<<(<<"chrA", 1000>>)>>, 300, 50, Genomes)

NextPlan ==
    \/ Setup
    \/ SetupRaise

SpecPlan == InitPlanExample /\ [][NextPlan]_vars

\* ------------------------------------------------------------------ claims
PlanDone == setupState = "done" /\ Len(chrom_sizes) = 1

ValidConfig == 0 <= args.overlap /\ args.overlap < args.chunksize

ChromSize == chrom_sizes[1][2]

WindowEnd(i) == results[i].start + results[i].chunksize

\* C1: with 0 <= O < C the chunks planned for a chromosome of size L cover exactly
\* [0, L): every coordinate below L lies in some chunk and no chunk leaves [0, L).
C1_Coverage ==
    (PlanDone /\ ValidConfig) =>
        /\ \A x \in 0..(ChromSize - 1) :
              \E i \in Chunks : results[i].start <= x /\ x < WindowEnd(i)
        /\ \A i \in Chunks : 0 <= results[i].start /\ WindowEnd(i) <= ChromSize

C1_Witness ==
    /\ PlanDone /\ ValidConfig
    /\ ChromSize = 8 /\ args.chunksize = 3 /\ args.overlap = 1
    /\ Len(results) = 4
    /\ results[4].chunksize = 2

\* C3: merge_results has not run while any chunk's hal2maf or cgp job is unresolved.
C3_FanInGated ==
    mergeState = "done" =>
        \A i \in Chunks : halState[i] # "issued" /\ cgpState[i] # "issued"

C3_Witness ==
    /\ mergeState = "done"
    /\ Len(results) = 3
    /\ outOfOrder
    /\ \A i \in Chunks : cgpState[i] = "done"

\* C4: a cgp job that has started read the file id its own hal2maf job returned,
\* and that hal2maf job had finished successfully.
C4_CgpAfterHal2maf ==
    \A i \in DOMAIN cgpInput :
        /\ halState[i] = "done"
        /\ i \in DOMAIN maf
        /\ cgpInput[i] = maf[i]

C4_Witness ==
    /\ Len(results) >= 2
    /\ 2 \in DOMAIN cgpInput
    /\ halState[1] = "issued"
    /\ cgpState[2] = "done"

\* C5: whenever C <= O, setup fails and neither a chunk chain nor merge_results
\* is issued.
C5_ConfigRejected ==
    (args.chunksize <= args.overlap /\ setupState # "issued") =>
        /\ setupState = "failed"
        /\ results = <<>>
        /\ mergeState = "none"

\* C6 as stated: every chunk of a chromosome but the last has size exactly C.
C6_OnlyLastShort ==
    (PlanDone /\ ValidConfig) =>
        \A i \in 1..(Len(results) - 1) : results[i].chunksize = args.chunksize

\* C6 amended: a chunk whose start + C <= L has size exactly C; every other chunk
\* is shorter than C and ends at L; the shorter chunks form a suffix of the
\* sequence, of at most one chunk when O = 0.
C6_ClippedSuffix ==
    (PlanDone /\ ValidConfig) =>
        /\ \A i \in Chunks :
              /\ results[i].start + args.chunksize <= ChromSize
                    => results[i].chunksize = args.chunksize
              /\ results[i].start + args.chunksize > ChromSize
                    => results[i].chunksize < args.chunksize /\ WindowEnd(i) = ChromSize
              /\ WindowEnd(i) <= ChromSize
        /\ \A i, j \in Chunks :
              (i < j /\ results[i].chunksize < args.chunksize)
                    => results[j].chunksize < args.chunksize
        /\ args.overlap = 0 =>
              \A i \in 1..(Len(results) - 1) : results[i].chunksize = args.chunksize

C6_Witness ==
    /\ PlanDone /\ ValidConfig
    /\ ChromSize = 5 /\ args.chunksize = 4 /\ args.overlap = 3
    /\ Len(results) = 5
    /\ results[3].chunksize = 3
    /\ results[4].chunksize = 2

\* the number of coordinates chunk i shares with its successor
Overlap(i) ==
    (IF WindowEnd(i) <= WindowEnd(i + 1) THEN WindowEnd(i) ELSE WindowEnd(i + 1))
        - results[i + 1].start

\* C7 as stated: every pair of consecutive chunks but the final pair overlaps by
\* exactly O.
C7_OnlyFinalPairShort ==
    (PlanDone /\ ValidConfig) =>
        \A i \in 1..(Len(results) - 2) : Overlap(i) = args.overlap

\* C7 amended: a pair of consecutive chunks whose first chunk has size C overlaps
\* by exactly O; a pair whose first chunk is clipped overlaps by the whole second
\* chunk, which is less than O; when O > 0 there may be several such pairs.
C7_OverlapUnlessClipped ==
    (PlanDone /\ ValidConfig) =>
        \A i \in 1..(Len(results) - 1) :
            /\ results[i].chunksize = args.chunksize => Overlap(i) = args.overlap
            /\ results[i].chunksize < args.chunksize =>
                  /\ Overlap(i) = results[i + 1].chunksize
                  /\ Overlap(i) < args.overlap

C7_Witness ==
    /\ PlanDone /\ ValidConfig
    /\ ChromSize = 5 /\ args.chunksize = 4 /\ args.overlap = 3
    /\ Len(results) = 5
    /\ Overlap(2) = 3
    /\ Overlap(3) = 2
    /\ Overlap(4) = 1

ChunkFailed == \E i \in Chunks : halState[i] = "failed" \/ cgpState[i] = "failed"

\* C8: once a chunk's hal2maf or cgp job has failed, merge_results never runs, no
\* join_genes job exists or writes, nothing is exported, and the run can only end
\* as failed.
C8_ChunkFailureIsFatal ==
    ChunkFailed =>
        /\ mergeState # "done"
        /\ DOMAIN joinState = {}
        /\ DOMAIN raw_gtf = {}
        /\ runState # "exported"
        /\ stdout_file = <<>>
        /\ DOMAIN exported = {}
        /\ ~(ENABLED Next) => runState = "failed"

C8_Witness ==
    /\ Len(results) = 3
    /\ halState[1] = "failed"
    /\ cgpState[2] = "failed"
    /\ cgpState[3] = "done"
    /\ runState = "failed"

\* C2: each join_genes job writes its genome's chunks in ascending start offset.
C2_JoinInStartOrder ==
    \A g \in DOMAIN raw_gtf :
        \A i, j \in DOMAIN raw_gtf[g] :
            i < j => raw_gtf[g][i].key[2] <= raw_gtf[g][j].key[2]

\* C9: the exported log holds one block per planned chunk, in the order of
\* setup's results list.
C9_LogInWindowOrder ==
    runState = "exported" =>
        stdout_file = [i \in Chunks |-> [key |-> Key(results[i]), log |-> cgpRv[i].stdout]]

\* C10: merge_results spawns one join_genes job per genome of args.genomes, and
\* a finished run exports three files for exactly the genomes of args.genomes.
C10_OneJoinPerTargetGenome ==
    /\ mergeState = "done" => DOMAIN joinState = args.genomes
    /\ runState = "exported" =>
          /\ DOMAIN exported = args.genomes
          /\ \A g \in DOMAIN exported : Len(exported[g]) = 3

\* the reference plan: starts 0, C-O, 2(C-O), ... below L, each of size min(C, L - start)
RefCount(chrom_size, chunksize, overlap) ==
    (chrom_size + (chunksize - overlap) - 1) \div (chunksize - overlap)

RefWindows(chrom, chrom_size, chunksize, overlap) ==
    [i \in 1..RefCount(chrom_size, chunksize, overlap) |->
        LET start == (i - 1) * (chunksize - overlap)
        IN  [chrom |-> chrom, start |-> start,
             chunksize |-> IF chunksize <= chrom_size - start
                           THEN chunksize ELSE chrom_size - start]]

\* C11: with 0 <= O < C the chunks setup plans for a chromosome are the reference
\* plan; none when L = 0; starts 0, 250, 500, 750 with sizes 300, 300, 300, 250
\* for L = 1000, C = 300, O = 50.
C11_PlanIsReference ==
    (PlanDone /\ ValidConfig) =>
        /\ results = RefWindows(chrom_sizes[1][1], ChromSize, args.chunksize, args.overlap)
        /\ ChromSize = 0 => results = <<>>
        /\ (ChromSize = 1000 /\ args.chunksize = 300 /\ args.overlap = 50) =>
              /\ Len(results) = 4
              /\ <<results[1].start, results[2].start, results[3].start, results[4].start>>
                    = <<0, 250, 500, 750>>
              /\ <<results[1].chunksize, results[2].chunksize, results[3].chunksize,
                   results[4].chunksize>> = <<300, 300, 300, 250>>

C11_Witness ==
    /\ PlanDone
    /\ ChromSize = 1000 /\ args.chunksize = 300 /\ args.overlap = 50
    /\ Len(results) = 4
    /\ results[4] = [chrom |-> "chrA", start |-> 750, chunksize |-> 250]

\* C18: with 0 <= O < C every planned chunk lies inside its chromosome, is not
\* empty and is no longer than C.
C18_WindowInsideChromosome ==
    (PlanDone /\ ValidConfig) =>
        \A i \in Chunks :
            /\ 0 <= results[i].start /\ results[i].start < ChromSize
            /\ 1 <= results[i].chunksize /\ results[i].chunksize <= args.chunksize
            /\ WindowEnd(i) <= ChromSize

C18_Witness ==
    /\ PlanDone /\ ValidConfig
    /\ ChromSize = 7 /\ args.chunksize = 4 /\ args.overlap = 1
    /\ Len(results) = 3
    /\ results[3].start = 6 /\ results[3].chunksize = 1

\* C12: a cgp job that finished successfully returned a gff for exactly the
\* genomes of args.genomes; a cgp job that failed, or has not run, returned nothing.
C12_GffChunkSetComplete ==
    \A i \in Chunks :
        /\ cgpState[i] = "done" =>
              /\ i \in DOMAIN cgpRv
              /\ DOMAIN cgpRv[i].gff = args.genomes
              /\ \A g \in args.genomes : cgpRv[i].gff[g] = FileId("gff", i, g)
        /\ cgpState[i] # "done" => i \notin DOMAIN cgpRv

C12_Witness ==
    /\ Len(results) >= 2
    /\ args.genomes = Genomes
    /\ cgpState[1] = "done"
    /\ DOMAIN cgpRv[1].gff = Genomes
    /\ cgpState[2] = "failed"
    /\ 2 \notin DOMAIN cgpRv

JoinFailed == \E g \in DOMAIN joinState : joinState[g] = "failed"

\* C13: a join_genes job that has not run yet can run whatever became of the
\* join_genes jobs of the other genomes; the run does not end while one is still
\* to run; and once one has failed the run exports nothing and can only end failed.
C13_JoinsIndependent ==
    /\ \A g \in DOMAIN joinState :
          (runState = "running" /\ joinState[g] = "issued") => ENABLED JoinGenes(g)
    /\ runState = "failed" => \A g \in DOMAIN joinState : joinState[g] # "issued"
    /\ JoinFailed =>
          /\ runState # "exported"
          /\ DOMAIN exported = {}
          /\ ~(ENABLED Next) => runState = "failed"

C13_Witness ==
    /\ DOMAIN joinState = Genomes
    /\ joinState["g1"] = "failed"
    /\ joinState["g2"] = "done"
    /\ "g2" \in DOMAIN raw_gtf
    /\ Len(raw_gtf["g2"]) = 3
    /\ runState = "failed"

\* the number of chunks of the reference plan of a whole chromosome-size table
RECURSIVE RefTotal(_, _, _)
RefTotal(table, chunksize, overlap) ==
    IF table = <<>> THEN 0
    ELSE (IF chunksize > overlap THEN RefCount(table[1][2], chunksize, overlap) ELSE 0)
            + RefTotal(Tail(table), chunksize, overlap)

\* C15: setup issues exactly one hal2maf job and one cgp job per planned chunk, N
\* of each for a plan of N chunks, and every cgp job that ran read the file of the
\* hal2maf job of its own chunk.
C15_OneChainPerWindow ==
    setupState = "done" =>
        /\ Len(results) = RefTotal(chrom_sizes, args.chunksize, args.overlap)
        /\ DOMAIN halState = Chunks
        /\ DOMAIN cgpState = Chunks
        /\ DOMAIN maf \subseteq Chunks
        /\ \A i \in DOMAIN maf : maf[i] = FileId("maf", i, "-")
        /\ \A i \in DOMAIN cgpInput : i \in Chunks /\ cgpInput[i] = FileId("maf", i, "-")

C15_Witness ==
    /\ setupState = "done"
    /\ Len(chrom_sizes) = 2
    /\ chrom_sizes[1][1] # chrom_sizes[2][1]
    /\ Len(results) = 3
    /\ DOMAIN halState = 1..3
    /\ DOMAIN cgpInput = 1..3

DistinctChroms ==
    \A i, j \in 1..Len(chrom_sizes) : i # j => chrom_sizes[i][1] # chrom_sizes[j][1]

PlannedKeys == {Key(results[i]) : i \in Chunks}

\* the entries gff_chunks_by_genome, a defaultdict, holds for genome g
GenomeChunks(g) ==
    IF g \in DOMAIN gff_chunks_by_genome THEN gff_chunks_by_genome[g] ELSE EmptyDict

\* C16: with pairwise distinct chromosome ids, merge_results keeps one entry per
\* planned chunk: every genome's dict and the log dict have the N planned keys,
\* each mapped to the file of its own chunk.
C16_RegroupLosesNoWindow ==
    (mergeState = "done" /\ DistinctChroms) =>
        /\ Cardinality(DOMAIN stdout_file_ids) = Len(results)
        /\ DOMAIN stdout_file_ids = PlannedKeys
        /\ \A i \in Chunks : stdout_file_ids[Key(results[i])] = FileId("stdout", i, "-")
        /\ \A g \in args.genomes :
              /\ Cardinality(DOMAIN GenomeChunks(g)) = Len(results)
              /\ DOMAIN GenomeChunks(g) = PlannedKeys
              /\ \A i \in Chunks : GenomeChunks(g)[Key(results[i])] = FileId("gff", i, g)

C16_Witness ==
    /\ mergeState = "done"
    /\ Len(chrom_sizes) = 2 /\ DistinctChroms
    /\ Len(results) = 3
    /\ results[1].chrom # results[3].chrom
    /\ args.genomes = Genomes
    /\ Cardinality(DOMAIN gff_chunks_by_genome["g2"]) = 3

\* the row of the chromosome-size table that holds chromosome id chrom
RowOf(chrom) == CHOOSE k \in 1..Len(chrom_sizes) : chrom_sizes[k][1] = chrom

\* C17: the list merge_results receives has one entry per planned chunk, in the
\* order of setup's results list (table order, then ascending start, when the
\* chromosome ids are distinct), each holding the return value of the cgp job of
\* its own chunk, whatever order the cgp jobs finished in.
C17_MergeInputInPlanOrder ==
    mergeState = "done" =>
        /\ Len(mergeInput) = Len(results)
        /\ \A i \in Chunks :
              /\ mergeInput[i].chrom = results[i].chrom
              /\ mergeInput[i].start = results[i].start
              /\ mergeInput[i].chunksize = results[i].chunksize
              /\ mergeInput[i].rv.stdout = FileId("stdout", i, "-")
              /\ mergeInput[i].rv.gff = [g \in args.genomes |-> FileId("gff", i, g)]
        /\ DistinctChroms =>
              \A i \in 1..(Len(mergeInput) - 1) :
                  IF mergeInput[i].chrom = mergeInput[i + 1].chrom
                  THEN mergeInput[i].start < mergeInput[i + 1].start
                  ELSE RowOf(mergeInput[i].chrom) < RowOf(mergeInput[i + 1].chrom)

C17_Witness ==
    /\ mergeState = "done"
    /\ outOfOrder
    /\ Len(mergeInput) = 3
    /\ mergeInput[1].chrom # mergeInput[3].chrom
    /\ mergeInput[3].rv.stdout = FileId("stdout", 3, "-")

\* C20: the log and the per-genome files are written only when setup, every chunk
\* chain, merge_results and every join_genes job have succeeded; while any job of
\* the graph is failed nothing has been written.
C20_ExportOnlyAfterSuccess ==
    /\ (runState = "exported" \/ stdout_file # <<>> \/ DOMAIN exported # {}) =>
          /\ runState = "exported"
          /\ setupState = "done"
          /\ \A i \in Chunks : halState[i] = "done" /\ cgpState[i] = "done"
          /\ mergeState = "done"
          /\ \A g \in DOMAIN joinState : joinState[g] = "done"
          /\ DOMAIN exported = DOMAIN joinState
    /\ SomeJobFailed =>
          /\ runState # "exported"
          /\ stdout_file = <<>>
          /\ DOMAIN exported = {}

C20_Witness ==
    /\ runState = "exported"
    /\ Len(results) = 3
    /\ Len(stdout_file) = 3
    /\ DOMAIN exported = Genomes
    /\ \A g \in Genomes : joinState[g] = "done"

\* C14: after a restart the inputs have been imported once, one setup job has been
\* created, and no job that had succeeded before the interruption was executed again.
C14_RestartResumes ==
    restarts > 0 =>
        /\ imports = 1
        /\ setupJobs = 1
        /\ reexecuted = {}

C14_Witness ==
    /\ restarts = 1
    /\ runState = "exported"
    /\ Len(results) = 2
    /\ JobId("setup", 0, "-") \in resolvedBefore
    /\ JobId("cgp", 1, "-") \in resolvedBefore
    /\ JobId("cgp", 2, "-") \notin resolvedBefore
    /\ cgpState[2] = "done"

Completed ==
    /\ runState = "exported"
    /\ setupState = "done"
    /\ \A i \in Chunks : halState[i] = "done" /\ cgpState[i] = "done"
    /\ mergeState = "done"
    /\ \A g \in DOMAIN joinState : joinState[g] = "done"

\* merge_results and every join_genes job, once finished, never run again
RunsOnce ==
    /\ mergeState = "done" => (mergeState' = "done" /\ mergeInput' = mergeInput)
    /\ \A g \in DOMAIN joinState :
          joinState[g] = "done" =>
              /\ g \in DOMAIN joinState'
              /\ joinState'[g] = "done"
              /\ raw_gtf'[g] = raw_gtf[g]

\* C19: under fair scheduling and with 0 <= O < C, a run in which no job fails
\* eventually completes: setup has planned, every chain, merge_results and every
\* join_genes job has finished and the results are exported; merge_results and each
\* join_genes job run once.
C19_RunCompletes ==
    /\ ValidConfig => <>(SomeJobFailed \/ Completed)
    /\ [][RunsOnce]_vars

C19_Witness ==
    /\ Completed
    /\ ValidConfig
    /\ Len(results) = 2
    /\ args.genomes = Genomes
    /\ DOMAIN raw_gtf = Genomes

====
